---- MODULE Spec2Model ----
(***************************************************************************)
(* Model of the adaptive grid engine of kuBot-futures (src/main_bot.py).   *)
(*                                                                         *)
(* Python floats are modelled as exact rationals [n, d] in lowest terms    *)
(* with d > 0, so that x * 0.95, range / grid_size, budget / lower and the *)
(* 5% drift test are computed as the code computes them (rounding of the   *)
(* binary representation aside).  A float division by zero raises          *)
(* ZeroDivisionError in Python; the operators that divide report it.       *)
(***************************************************************************)
EXTENDS Integers, Sequences, FiniteSets, TLC

(***************************************************************************)
(* Bounds of the model.                                                    *)
(***************************************************************************)
\* the clock stops after MaxTime poll periods
MaxTime == 3
\* ADJUST_INTERVAL_MIN, expressed in poll periods (asyncio.sleep(10))
adjust_interval == 2
\* largest GRID_SIZE the configuration is drawn from
MaxGridSize == 4
\* how many outbound calls (price fetch, file write) fail in one run
MaxFaults == 1
\* how many orders fill in one run
MaxFills == 2
\* the prices 0..FnMaxPrice are the inputs the functions are applied to
FnMaxPrice == 30
\* the bounds -FnMaxBound..FnMaxBound are the inputs of
\* calculate_grid_parameters
FnMaxBound == 3

(***************************************************************************)
(* Program constants.                                                      *)
(***************************************************************************)
\* BUDGET default
budget == 1000
\* period default of calculate_atr, the one calculate_atr_bounds uses
atr_period == 14
\* GRID_SIZE default
default_grid_size == 10
MaxOrderIds == 3
MaxRiskCalls == 3
MaxTrades == 5
FnMaxCandles == 4
FnMaxPeriod == 2

(***************************************************************************)
(* Exact arithmetic standing for Python's float arithmetic.                *)
(***************************************************************************)
Abs(x) == IF x < 0 THEN -x ELSE x

RECURSIVE GCD(_, _)
GCD(a, b) == IF b = 0 THEN a ELSE GCD(b, a % b)

\* the rational n/d (d # 0) in lowest terms with a positive denominator
Rat(n, d) ==
    LET s == IF d < 0 THEN -1 ELSE 1
        g == GCD(Abs(n), Abs(d))
    IN  [n |-> (s * n) \div g, d |-> (s * d) \div g]

F(i) == [n |-> i, d |-> 1]

RAdd(a, b) == Rat(a.n * b.d + b.n * a.d, a.d * b.d)
RSub(a, b) == Rat(a.n * b.d - b.n * a.d, a.d * b.d)
RMul(a, b) == Rat(a.n * b.n, a.d * b.d)
\* a / b for b # 0 (the callers raise ZeroDivisionError for b = 0)
RDiv(a, b) == Rat(a.n * b.d, a.d * b.n)
RAbs(a) == [n |-> Abs(a.n), d |-> a.d]
RLt(a, b) == a.n * b.d < b.n * a.d
RLe(a, b) == a.n * b.d <= b.n * a.d
RMax(a, b) == IF RLt(a, b) THEN b ELSE a
IsZero(a) == a.n = 0

RECURSIVE RSum(_)
RSum(s) == IF s = <<>> THEN F(0) ELSE RAdd(Head(s), RSum(Tail(s)))

(***************************************************************************)
(* Values.                                                                 *)
(***************************************************************************)
\* Python's None (grid_config before setup, place_order without an Order)
None == [none |-> TRUE]

\* the prices the ticker takes
PriceInputs == {F(100), F(120)}
\* what get_current_price returns when the call fails or the response
\* carries no data
PriceFailed == F(0)

\* one candle: kline[2], kline[3], kline[4]
Candle(h, l, c) == [high |-> F(h), low |-> F(l), close |-> F(c)]
\* atr_period + 1 candles whose true range is v each
Candles(v) == [i \in 1..(atr_period + 1) |-> Candle(100 + v, 100, 100)]
\* fewer candles than calculate_atr needs
ShortCandles == [i \in 1..3 |-> Candle(102, 100, 101)]
\* get_klines: the candles, or [] when the call fails or carries no data
KlineResults == {<<>>, ShortCandles, Candles(0), Candles(2)}

\* add_order of the live gateway: an orderId, a response without data, an error
GatewayResults == {"ok", "empty", "error"}

(***************************************************************************)
(* ATRCalculator.calculate_atr                                             *)
(***************************************************************************)
true_range(highs, lows, closes, i) ==
    LET high_low == RSub(highs[i], lows[i])
        high_close_prev == RAbs(RSub(highs[i], closes[i - 1]))
        low_close_prev == RAbs(RSub(lows[i], closes[i - 1]))
    IN  RMax(high_low, RMax(high_close_prev, low_close_prev))

\* an ATR computed from whatever candles there are
calculate_atr_of_any_length(highs, lows, closes, period) ==
    LET true_ranges == [i \in 1..(Len(highs) - 1) |->
                           true_range(highs, lows, closes, i + 1)]
        n == Len(true_ranges)
    IN  IF n = 0
        THEN F(0)
        ELSE IF n < period
             THEN RDiv(RSum(true_ranges), F(n))
             ELSE RDiv(RSum(SubSeq(true_ranges, n - period + 1, n)), F(period))

\* an ATR averaged over every true range
calculate_atr_over_all(highs, lows, closes, period) ==
    IF Len(highs) < period + 1
    THEN F(0)
    ELSE LET true_ranges == [i \in 1..(Len(highs) - 1) |->
                                true_range(highs, lows, closes, i + 1)]
         IN  RDiv(RSum(true_ranges), F(Len(true_ranges)))

calculate_atr(highs, lows, closes, period) ==
    IF Len(highs) < period + 1
    THEN F(0)
    ELSE LET true_ranges == [i \in 1..(Len(highs) - 1) |->
                                true_range(highs, lows, closes, i + 1)]
             n == Len(true_ranges)
         IN  IF n < period
             THEN RDiv(RSum(true_ranges), F(n))
             ELSE RDiv(RSum(SubSeq(true_ranges, n - period + 1, n)), F(period))

(***************************************************************************)
(* GridTradingBot.calculate_atr_bounds: klines is what get_klines returned *)
(* and current_price what the one get_current_price call of the taken      *)
(* branch returned.                                                        *)
(***************************************************************************)
candles_atr(klines) ==
    LET highs == [i \in 1..Len(klines) |-> klines[i].high]
        lows == [i \in 1..Len(klines) |-> klines[i].low]
        closes == [i \in 1..Len(klines) |-> klines[i].close]
    IN  calculate_atr(highs, lows, closes, atr_period)

\* candles_atr, tabulated over the candle lists of the model
atr_of == [klines \in KlineResults |-> candles_atr(klines)]

calculate_atr_bounds(klines, current_price) ==
    IF klines = <<>>
    THEN [lower |-> RMul(current_price, Rat(95, 100)),
          upper |-> RMul(current_price, Rat(105, 100))]
    ELSE LET atr == atr_of[klines]
             atr_multiplier == F(2)
         IN  [lower |-> RSub(current_price, RMul(atr, atr_multiplier)),
              upper |-> RAdd(current_price, RMul(atr, atr_multiplier))]

(***************************************************************************)
(* GridTradingBot.calculate_grid_parameters; raised is the                 *)
(* ZeroDivisionError of position_size / lower_bound.                       *)
(***************************************************************************)
calculate_grid_parameters(lower_bound, upper_bound, gsize) ==
    LET price_range == RSub(upper_bound, lower_bound)
        spread == RDiv(price_range, F(gsize))
        position_size == RDiv(F(budget), F(gsize * 2))
    IN  IF IsZero(lower_bound)
        THEN [raised |-> TRUE, spread |-> spread, increment |-> F(0)]
        ELSE [raised |-> FALSE, spread |-> spread,
              increment |-> RDiv(position_size, lower_bound)]

\* the GridConfig fields the engine reads (symbol, leverage, budget,
\* stop_loss, take_profit are copies of the configuration and never read)
GridConfig(lower_bound, upper_bound, spread, increment) ==
    [lower_bound |-> lower_bound, upper_bound |-> upper_bound,
     spread |-> spread, increment |-> increment]

(***************************************************************************)
(* State.                                                                  *)
(***************************************************************************)
VARIABLES
    sandbox,          \* SANDBOX: orders and fills are simulated locally
    grid_size,        \* GRID_SIZE
    running,          \* self.running
    grid_config,      \* self.grid_config: None or a GridConfig
    active_orders,    \* self.active_orders: list of Order
    last_atr_update,  \* self.last_atr_update
    orders_file,      \* data/orders.json: NoOrdersFile when absent, else the
                      \* list saved
    pnl_file,         \* data/pnl.json: None when absent, else the ledger saved
    now,              \* the wall clock, in poll periods
    faults,           \* outbound calls that have failed so far
    fills,            \* orders found filled so far
    next_id,          \* the next locally generated order id
    pc,               \* where start_bot / monitor_orders stands
    scan_price,       \* current_price of the running fill-poll pass
    scan_queue,       \* what is left of active_orders.copy() in that pass
    placed,           \* the place_order calls of the latest handler
    last_fill,        \* the latest handle_filled_order call, None before it
    recomputed_at,    \* the times of the bound recomputations of
                      \* check_and_adjust_grid (the last two)
    last_adjust,      \* the bound recomputation of check_and_adjust_grid
                      \* in this tick, None without one
    tick_start,       \* grid_config and active_orders when the tick began
    tick_fetch_failed, \* a get_current_price of this tick returned 0.0
    applied,          \* the latest application of a function to inputs of
                      \* its own (SpecFunctions), None in the engine's runs
    daily_pnl,        \* RiskManager.daily_pnl (utils.py)
    trades_count,     \* PerformanceTracker.trades_count (utils.py)
    send_failed,      \* the Telegram sends of the latest step failed
    \* utils.py, RiskManager (with daily_pnl)
    session_start_balance, peak_balance,
    risk_status,      \* what the latest update_pnl / check_risk_limits
                      \* returned, None before it
    risk_calls,       \* the calls made on the RiskManager, in order
    \* utils.py, PerformanceTracker (with trades_count)
    winning_trades, losing_trades, total_profit, total_loss,
    max_consecutive_wins, max_consecutive_losses,
    current_streak, current_streak_type,
    trade_history,    \* the profits passed to add_trade, in order
    \* utils.py, OrderManager: each dict as the status of its order ids
    pending_orders, filled_orders, cancelled_orders,
    retired           \* the order ids that have been filled or cancelled

vars == <<sandbox, grid_size, running, grid_config, active_orders,
          last_atr_update, orders_file, pnl_file, now, faults,
          fills, next_id, pc, scan_price, scan_queue, placed, last_fill,
          recomputed_at, last_adjust, tick_start, tick_fetch_failed, applied,
          daily_pnl, trades_count, send_failed,
          session_start_balance, peak_balance, risk_status, risk_calls,
          winning_trades, losing_trades, total_profit, total_loss,
          max_consecutive_wins, max_consecutive_losses,
          current_streak, current_streak_type, trade_history,
          pending_orders, filled_orders, cancelled_orders, retired>>

\* the objects of utils.py
risk_manager_vars == <<daily_pnl, session_start_balance, peak_balance,
                       risk_status, risk_calls>>
performance_tracker_vars == <<trades_count, winning_trades, losing_trades,
                              total_profit, total_loss, max_consecutive_wins,
                              max_consecutive_losses, current_streak,
                              current_streak_type, trade_history>>
order_manager_vars == <<pending_orders, filled_orders, cancelled_orders,
                        retired>>

\* what the engine's actions never change: the configuration, and the
\* bookkeeping of utils.py, which main_bot.py neither imports nor calls
config_vars == <<sandbox, grid_size, applied, risk_manager_vars,
                 performance_tracker_vars, order_manager_vars>>

\* RiskManager.update_pnl: self.daily_pnl += pnl_change
risk_update_pnl(pnl, pnl_change) == RAdd(pnl, pnl_change)

\* PerformanceTracker.add_trade: self.trades_count += 1
add_trade(count) == count + 1

(***************************************************************************)
(* utils.py, RiskManager with the limits its constructor defaults to.      *)
(***************************************************************************)
max_drawdown == Rat(1, 10)
max_daily_loss == Rat(5, 100)

\* update_pnl: if current_balance > self.peak_balance: take it as the peak
\* a peak that follows the balance
peak_follows_balance(peak, current_balance) == current_balance

update_peak(peak, current_balance) ==
    IF RLt(peak, current_balance) THEN current_balance ELSE peak

daily_limit_exceeded(pnl, start_balance) ==
    /\ RLt(F(0), start_balance)
    /\ RLt(max_daily_loss, RDiv(RAbs(pnl), start_balance))

\* a drawdown check that trips on the limit itself
drawdown_limit_reached(peak, current_balance) ==
    /\ RLt(F(0), peak)
    /\ RLe(max_drawdown, RDiv(RSub(peak, current_balance), peak))

drawdown_limit_exceeded(peak, current_balance) ==
    /\ RLt(F(0), peak)
    /\ RLt(max_drawdown, RDiv(RSub(peak, current_balance), peak))

\* a stop decision that needs both limits exceeded
should_stop_on_both(daily, drawdown) == daily /\ drawdown

should_stop_trading(daily, drawdown) == daily \/ drawdown

check_risk_limits(pnl, start_balance, peak, current_balance) ==
    LET daily == daily_limit_exceeded(pnl, start_balance)
        drawdown == drawdown_limit_exceeded(peak, current_balance)
    IN  [daily_limit_exceeded |-> daily,
         drawdown_limit_exceeded |-> drawdown,
         should_stop_trading |-> should_stop_trading(daily, drawdown)]

\* RiskManager.__init__, PerformanceTracker.__init__, OrderManager.__init__
UtilsConstructed ==
    /\ daily_pnl = F(0)
    /\ session_start_balance = F(0)
    /\ peak_balance = F(0)
    /\ risk_status = None
    /\ risk_calls = <<>>
    /\ trades_count = 0
    /\ winning_trades = 0
    /\ losing_trades = 0
    /\ total_profit = F(0)
    /\ total_loss = F(0)
    /\ max_consecutive_wins = 0
    /\ max_consecutive_losses = 0
    /\ current_streak = 0
    /\ current_streak_type = "None"
    /\ trade_history = <<>>
    /\ pending_orders = <<>>
    /\ filled_orders = <<>>
    /\ cancelled_orders = <<>>
    /\ retired = {}

\* tick_start outside a tick
NoTick == [grid_config |-> None, active_orders |-> <<>>]

Cost(failed) == IF failed THEN 1 ELSE 0

\* GridTradingBot.get_current_price: the ticker's price, or 0.0 when the
\* call fails or the response carries no data
PriceResults == PriceInputs \cup {PriceFailed}

\* orders_file when data/orders.json does not exist (a list no save_orders
\* writes)
NoOrdersFile == <<None>>

\* DataPersistence.load_pnl
load_pnl(file) ==
    IF file = None THEN [total_pnl |-> F(0), trades |-> <<>>] ELSE file

(***************************************************************************)
(* GridTradingBot.__init__ after load_config.  Order ids are               *)
(* "test_<timestamp>" in simulation; they are modelled as fresh numbers    *)
(* (the clock is read at least a microsecond apart).                       *)
(***************************************************************************)
Init ==
    /\ sandbox \in BOOLEAN
    /\ grid_size \in (MaxGridSize - 1)..MaxGridSize
    /\ running = FALSE
    /\ grid_config = None
    /\ active_orders = <<>>
    /\ last_atr_update = 0
    /\ orders_file = NoOrdersFile
    /\ pnl_file = None
    /\ now = 0
    /\ faults = 0
    /\ fills = 0
    /\ next_id = 1
    /\ pc = "new"
    /\ scan_price = F(0)
    /\ scan_queue = <<>>
    /\ placed = <<>>
    /\ last_fill = None
    /\ recomputed_at = <<>>
    /\ last_adjust = None
    /\ tick_start = NoTick
    /\ tick_fetch_failed = FALSE
    /\ applied = None
    /\ send_failed = FALSE
    /\ UtilsConstructed

(***************************************************************************)
(* GridTradingBot.send_telegram_message: whether the call raises, ok being *)
(* whether telegram_bot.send_message succeeded.  Every Exception of the    *)
(* send is caught and logged inside the method.                            *)
(***************************************************************************)
\* a send whose failure reaches the caller
send_telegram_message_raising(ok) == ~ok

send_telegram_message(ok) == FALSE

\* what a handler's send meets when telegram_bot.send_message answers ok:
\* that answer
Notifier == [ok \in BOOLEAN |-> ok]
\* a notifier that delivers whatever the answer would have been
NotifierUp == [ok \in BOOLEAN |-> TRUE]

\* the sends of a handler, with either answer: the first one raises into
\* the handler, or they all return
sends_raise(notifier) ==
    \E ok \in BOOLEAN :
        /\ send_telegram_message(notifier[ok])
        /\ send_failed' = ~ok

sends_return(notifier) ==
    \E ok \in BOOLEAN :
        /\ ~send_telegram_message(notifier[ok])
        /\ send_failed' = ~ok

(***************************************************************************)
(* GridTradingBot.place_order.  gw is the gateway's answer to add_order    *)
(* in live mode.  In live mode the log line after a successful add_order   *)
(* reads order_id, a local that only the simulation branch assigns, so it  *)
(* raises UnboundLocalError and the handler returns None; a response       *)
(* without data falls off the end of the function, which is None too.      *)
(***************************************************************************)
Order(order_id, side, size, price) ==
    [order_id |-> order_id, side |-> side, size |-> size, price |-> price,
     status |-> "active"]

place_order(side, price, size, order_id, gw) ==
    IF sandbox
    THEN Order(order_id, side, size, price)
    ELSE None

\* the gateway answers of the (at most n) add_order calls of one handler:
\* none in simulation; in live mode the gateway is taken to answer the calls
\* of one handler alike
GatewayAnswers(n) ==
    IF sandbox
    THEN {[j \in 1..n |-> "sim"]}
    ELSE {[j \in 1..n |-> g] : g \in GatewayResults}

\* one entry of the log of place_order calls
Placement(side, price, size, cfg, gw, result) ==
    [side |-> side, price |-> price, size |-> size,
     lower_bound |-> cfg.lower_bound, upper_bound |-> cfg.upper_bound,
     gateway |-> gw, tracked |-> result # None]

(***************************************************************************)
(* GridTradingBot.create_initial_orders with self.grid_config = cfg        *)
(* (not None) and self.active_orders = orders: current_price is what       *)
(* get_current_price returned, gw the gateway's answers, save_ok whether   *)
(* save_orders wrote the file.  Yields the new active_orders, orders_file, *)
(* next_id and the log of the place_order calls.                           *)
(***************************************************************************)
ladder_prices(cfg, current_price, gsize) ==
    LET half == gsize \div 2
    IN  [k \in 1..(2 * half) |->
            IF k <= half
            THEN [side |-> "buy",
                  price |-> RSub(current_price, RMul(F(k), cfg.spread))]
            ELSE [side |-> "sell",
                  price |-> RAdd(current_price, RMul(F(k - half), cfg.spread))]]

\* a bounds test that drops the rungs lying on a bound
ladder_strictly_in_bounds(cfg, rung) ==
    IF rung.side = "buy"
    THEN RLt(cfg.lower_bound, rung.price)
    ELSE RLt(rung.price, cfg.upper_bound)

ladder_in_bounds(cfg, rung) ==
    IF rung.side = "buy"
    THEN RLe(cfg.lower_bound, rung.price)
    ELSE RLe(rung.price, cfg.upper_bound)

create_initial_orders(cfg, orders, file, nid, current_price, gw, save_ok) ==
    LET InBounds(rung) == ladder_in_bounds(cfg, rung)
        calls == SelectSeq(ladder_prices(cfg, current_price, grid_size), InBounds)
        results == [j \in 1..Len(calls) |->
                       place_order(calls[j].side, calls[j].price,
                                   cfg.increment, nid + j - 1, gw[j])]
        IsOrder(r) == r # None
        new_orders == orders \o SelectSeq(results, IsOrder)
    IN  [active_orders |-> new_orders,
         orders_file |-> IF save_ok THEN new_orders ELSE file,
         next_id |-> IF sandbox THEN nid + Len(calls) ELSE nid,
         placed |-> [j \in 1..Len(calls) |->
                        Placement(calls[j].side, calls[j].price, cfg.increment,
                                  cfg, gw[j], results[j])]]

(***************************************************************************)
(* GridTradingBot.start_bot: sets running and runs setup_grid, then enters *)
(* monitor_orders.  In setup_grid the ZeroDivisionError of                 *)
(* calculate_grid_parameters leaves grid_config None.                      *)
(***************************************************************************)
setup_grid(bounds, price1, price2, gw, save_ok) ==
    LET params == calculate_grid_parameters(bounds.lower, bounds.upper, grid_size)
        cfg == GridConfig(bounds.lower, bounds.upper, params.spread, params.increment)
        built == create_initial_orders(cfg, active_orders, orders_file, next_id,
                                       price2, gw, save_ok)
    IN  IF params.raised
        THEN /\ UNCHANGED <<grid_config, active_orders, orders_file, next_id>>
             /\ placed' = <<>>
             /\ tick_fetch_failed' = (price1 = PriceFailed)
             /\ faults' = faults + Cost(price1 = PriceFailed)
        ELSE /\ grid_config' = cfg
             /\ active_orders' = built.active_orders
             /\ orders_file' = built.orders_file
             /\ next_id' = built.next_id
             /\ placed' = built.placed
             /\ tick_fetch_failed' = (price1 = PriceFailed \/ price2 = PriceFailed)
             /\ faults' = faults + Cost(price1 = PriceFailed)
                                 + Cost(price2 = PriceFailed) + Cost(~save_ok)

\* start_bot with the notifier it sends through.  A send that raised at
\* the head of setup_grid would raise again in the except clauses of
\* setup_grid and of start_bot and end start_bot before monitor_orders.
start_bot_sending(notifier) ==
    /\ pc = "new"
    /\ running' = TRUE
    /\ \/ /\ sends_raise(notifier)
          /\ pc' = "done"
          /\ UNCHANGED <<grid_config, active_orders, orders_file,
                         next_id, placed, tick_fetch_failed, faults>>
       \/ /\ pc' = "loop"
          /\ \E klines \in KlineResults, price1 \in PriceResults :
                /\ faults + Cost(price1 = PriceFailed) <= MaxFaults
                /\ LET bounds == calculate_atr_bounds(klines, price1)
                   IN  \E price2 \in PriceResults,
                          gw \in GatewayAnswers(grid_size),
                          save_ok \in BOOLEAN :
                            setup_grid(bounds, price1, price2, gw, save_ok)
          /\ sends_return(notifier)
    /\ faults' <= MaxFaults
    /\ UNCHANGED <<config_vars, last_atr_update, pnl_file, now, fills,
                   scan_price, scan_queue, last_fill, recomputed_at,
                   last_adjust, tick_start>>

start_bot == start_bot_sending(Notifier)

(***************************************************************************)
(* GridTradingBot.monitor_orders, the head of the loop: leaves when        *)
(* running is cleared, else starts a fill-poll pass over a copy of         *)
(* active_orders (in simulation after fetching the price).                 *)
(***************************************************************************)
monitor_orders ==
    /\ pc = "loop"
    /\ IF ~running
       THEN /\ pc' = "done"
            /\ UNCHANGED <<scan_price, scan_queue, tick_start,
                           tick_fetch_failed, faults>>
       ELSE /\ pc' = "scan"
            /\ scan_queue' = active_orders
            /\ tick_start' = [grid_config |-> grid_config,
                              active_orders |-> active_orders]
            /\ IF sandbox
               THEN \E current_price \in PriceResults :
                        /\ scan_price' = current_price
                        /\ tick_fetch_failed' = (current_price = PriceFailed)
                        /\ faults' = faults + Cost(current_price = PriceFailed)
               ELSE /\ tick_fetch_failed' = FALSE
                    /\ UNCHANGED <<scan_price, faults>>
    /\ faults' <= MaxFaults
    /\ send_failed' = FALSE
    /\ UNCHANGED <<config_vars, running, grid_config, active_orders,
                   last_atr_update, orders_file, pnl_file, now, fills, next_id,
                   placed, last_fill, recomputed_at, last_adjust>>

(***************************************************************************)
(* GridTradingBot.update_pnl: ok is whether load_pnl and save_pnl both     *)
(* succeeded (any error is logged and the file is left as it was).         *)
(***************************************************************************)
\* an update that keeps only the latest trade entry
update_pnl_latest_only(file, profit, ok) ==
    LET pnl_data == load_pnl(file)
    IN  IF ok
        THEN [total_pnl |-> RAdd(pnl_data.total_pnl, profit),
              trades |-> <<[timestamp |-> now, profit |-> profit]>>]
        ELSE file

update_pnl(file, profit, ok) ==
    LET pnl_data == load_pnl(file)
    IN  IF ok
        THEN [total_pnl |-> RAdd(pnl_data.total_pnl, profit),
              trades |-> Append(pnl_data.trades,
                                [timestamp |-> now, profit |-> profit])]
        ELSE file

(***************************************************************************)
(* GridTradingBot.handle_filled_order for filled_order, an element of      *)
(* active_orders whose status the caller has set to filled.                *)
(***************************************************************************)
\* a mirror that is always one spread above the fill
mirror_always_above(filled_order, cfg) ==
    [side |-> IF filled_order.side = "buy" THEN "sell" ELSE "buy",
     price |-> RAdd(filled_order.price, cfg.spread),
     size |-> filled_order.size]

mirror_of(filled_order, cfg) ==
    IF filled_order.side = "buy"
    THEN [side |-> "sell", price |-> RAdd(filled_order.price, cfg.spread),
          size |-> filled_order.size]
    ELSE [side |-> "buy", price |-> RSub(filled_order.price, cfg.spread),
          size |-> filled_order.size]

mirror_in_bounds(mirror, cfg) ==
    \/ mirror.side = "buy" /\ RLe(cfg.lower_bound, mirror.price)
    \/ mirror.side = "sell" /\ RLe(mirror.price, cfg.upper_bound)

remove_order(orders, order_id) ==
    LET Keep(o) == o.order_id # order_id IN SelectSeq(orders, Keep)

handle_filled_order(filled_order, orders, gw, save_ok, pnl_ok, notifier) ==
    LET cfg == grid_config
        mirror == mirror_of(filled_order, cfg)
        mirror_order == place_order(mirror.side, mirror.price, mirror.size,
                                    next_id, gw)
        with_mirror == Append(orders, mirror_order)
        profit == RMul(filled_order.size, cfg.spread)
        fill == [order |-> filled_order, mirror |-> mirror, spread |-> cfg.spread]
    IN  /\ last_fill' = fill
        /\ IF mirror_in_bounds(mirror, cfg)
           THEN /\ placed' = <<Placement(mirror.side, mirror.price, mirror.size,
                                         cfg, gw, mirror_order)>>
                /\ next_id' = IF sandbox THEN next_id + 1 ELSE next_id
                /\ IF mirror_order # None
                   THEN \/ \* the send raised: the handler logs and returns
                           /\ sends_raise(notifier)
                           /\ active_orders' = with_mirror
                           /\ UNCHANGED <<orders_file, pnl_file, faults>>
                        \/ /\ IF save_ok
                              THEN /\ orders_file' = with_mirror
                                   /\ pnl_file' =
                                          update_pnl(pnl_file, profit, pnl_ok)
                                   /\ active_orders' =
                                          remove_order(with_mirror,
                                                       filled_order.order_id)
                                   /\ faults' = faults + Cost(~pnl_ok)
                              ELSE \* save_orders raised: the handler logs
                                   \* and returns
                                   /\ active_orders' = with_mirror
                                   /\ faults' = faults + 1
                                   /\ UNCHANGED <<orders_file, pnl_file>>
                           /\ sends_return(notifier)
                   ELSE /\ active_orders' =
                               remove_order(orders, filled_order.order_id)
                        /\ send_failed' = FALSE
                        /\ UNCHANGED <<orders_file, pnl_file, faults>>
           ELSE /\ placed' = <<>>
                /\ active_orders' = remove_order(orders, filled_order.order_id)
                /\ send_failed' = FALSE
                /\ UNCHANGED <<orders_file, pnl_file, next_id, faults>>

\* order.status = 'filled' on the Order object the copy shares with the list
set_filled(orders, order_id) ==
    [i \in 1..Len(orders) |->
        IF orders[i].order_id = order_id
        THEN [orders[i] EXCEPT !.status = "filled"]
        ELSE orders[i]]

(***************************************************************************)
(* GridTradingBot.monitor_orders, one turn of the for loop over the copy:  *)
(* in simulation an order the price has crossed fills with probability     *)
(* 0.1; in live mode get_order reports the order active, inactive, or      *)
(* fails.                                                                  *)
(***************************************************************************)
\* a pass over the list itself, which meets what the pass appends to it
rest_of_live_list(queue, before, after) ==
    LET Appended(o) == \A i \in 1..Len(before) : before[i].order_id # o.order_id
    IN  Tail(queue) \o SelectSeq(after, Appended)

\* for order in self.active_orders.copy(): what is left of the pass after
\* one turn, before and after being active_orders around the turn
rest_of_copy(queue, before, after) == Tail(queue)

monitor_order_sending(notifier) ==
    /\ pc = "scan"
    /\ scan_queue # <<>>
    /\ LET order == Head(scan_queue)
           crossed == \/ order.side = "buy" /\ RLe(scan_price, order.price)
                      \/ order.side = "sell" /\ RLe(order.price, scan_price)
           filled == [order EXCEPT !.status = "filled"]
       IN  \E is_filled \in BOOLEAN :
              /\ sandbox /\ ~crossed => ~is_filled
              /\ is_filled => fills < MaxFills
              /\ fills' = fills + Cost(is_filled)
              /\ IF is_filled
                 THEN \E gw \in GatewayAnswers(1), save_ok, pnl_ok \in BOOLEAN :
                          handle_filled_order(filled,
                              set_filled(active_orders, order.order_id),
                              gw[1], save_ok, pnl_ok, notifier)
                 ELSE /\ send_failed' = FALSE
                      /\ UNCHANGED <<active_orders, orders_file, pnl_file,
                                     next_id, placed, last_fill, faults>>
    /\ scan_queue' = rest_of_copy(scan_queue, active_orders, active_orders')
    /\ faults' <= MaxFaults
    /\ UNCHANGED <<config_vars, running, grid_config, last_atr_update, now,
                   pc, scan_price, recomputed_at, last_adjust, tick_start,
                   tick_fetch_failed>>

monitor_order == monitor_order_sending(Notifier)

(***************************************************************************)
(* GridTradingBot.cancel_all_orders: every cancel_order error is caught    *)
(* per order, the list is cleared, then saved (save_ok: the write worked). *)
(***************************************************************************)
\* a teardown that saves the list without clearing it
cancel_keeps_orders(orders, file, save_ok) ==
    [active_orders |-> orders,
     orders_file |-> IF save_ok THEN orders ELSE file]

cancel_all_orders(orders, file, save_ok) ==
    [active_orders |-> <<>>,
     orders_file |-> IF save_ok THEN <<>> ELSE file]

\* abs(new - old) / old > threshold, for old # 0
drift_exceeds(new, old, threshold) ==
    RLt(threshold, RDiv(RAbs(RSub(new, old)), old))

\* what check_and_adjust_grid computed and did: the new bounds, whether it
\* ran cancel_all_orders, whether it ran create_initial_orders
Adjustment(bounds, cancelled, rebuilt) ==
    [new_lower |-> bounds.lower, new_upper |-> bounds.upper,
     cancelled |-> cancelled, rebuilt |-> rebuilt,
     old_config |-> grid_config, old_orders |-> active_orders]

\* the last two recomputation times
remember(times, t) ==
    IF Len(times) < 2 THEN Append(times, t) ELSE <<times[2], t>>

(***************************************************************************)
(* GridTradingBot.check_and_adjust_grid, run by monitor_orders after the   *)
(* fill-poll pass.  An exception anywhere (the ZeroDivisionError of a      *)
(* drift against a zero bound, or of calculate_grid_parameters) is logged  *)
(* and ends the handler where it stands.  atr_sent is whether              *)
(* calculate_atr_bounds sent its ATR update (it does when there are        *)
(* candles), notifier what the sends of the handler go through.            *)
(***************************************************************************)
adjust_grid(bounds, price1, atr_sent, notifier) ==
    LET cfg == grid_config
        threshold == Rat(5, 100)
        moved == [cfg EXCEPT !.lower_bound = bounds.lower,
                             !.upper_bound = bounds.upper]
        params == calculate_grid_parameters(bounds.lower, bounds.upper, grid_size)
        new_cfg == [moved EXCEPT !.spread = params.spread,
                                 !.increment = params.increment]
    IN  /\ recomputed_at' = remember(recomputed_at, now)
        /\ IF IsZero(cfg.lower_bound) \/ IsZero(cfg.upper_bound)
           THEN /\ last_adjust' = Adjustment(bounds, FALSE, FALSE)
                /\ tick_fetch_failed' = (tick_fetch_failed \/ price1 = PriceFailed)
                /\ faults' = faults + Cost(price1 = PriceFailed)
                /\ placed' = <<>>
                /\ \E ok \in BOOLEAN : send_failed' = (atr_sent /\ ~ok)
                /\ UNCHANGED <<grid_config, active_orders, orders_file,
                               next_id, last_atr_update>>
           ELSE IF \/ drift_exceeds(bounds.lower, cfg.lower_bound, threshold)
                   \/ drift_exceeds(bounds.upper, cfg.upper_bound, threshold)
                THEN \/ \* the send raised: the handler logs and returns
                        /\ sends_raise(notifier)
                        /\ last_adjust' = Adjustment(bounds, FALSE, FALSE)
                        /\ tick_fetch_failed' =
                               (tick_fetch_failed \/ price1 = PriceFailed)
                        /\ faults' = faults + Cost(price1 = PriceFailed)
                        /\ placed' = <<>>
                        /\ UNCHANGED <<grid_config, active_orders,
                                       orders_file, next_id, last_atr_update>>
                     \/ /\ \E cancel_save_ok \in BOOLEAN :
                             LET cancelled ==
                                     cancel_all_orders(active_orders, orders_file,
                                                       cancel_save_ok)
                             IN
                             IF params.raised
                             THEN /\ last_adjust' = Adjustment(bounds, TRUE, FALSE)
                                  /\ grid_config' = moved
                                  /\ active_orders' = cancelled.active_orders
                                  /\ orders_file' = cancelled.orders_file
                                  /\ placed' = <<>>
                                  /\ tick_fetch_failed' =
                                         (tick_fetch_failed \/ price1 = PriceFailed)
                                  /\ faults' = faults + Cost(price1 = PriceFailed)
                                                      + Cost(~cancel_save_ok)
                                  /\ UNCHANGED <<next_id, last_atr_update>>
                             ELSE \E price2 \in PriceResults,
                                     gw \in GatewayAnswers(grid_size),
                                     save_ok \in BOOLEAN :
                                  LET built ==
                                          create_initial_orders(
                                              new_cfg, cancelled.active_orders,
                                              cancelled.orders_file, next_id,
                                              price2, gw, save_ok)
                                  IN
                                  /\ last_adjust' = Adjustment(bounds, TRUE, TRUE)
                                  /\ grid_config' = new_cfg
                                  /\ active_orders' = built.active_orders
                                  /\ orders_file' = built.orders_file
                                  /\ next_id' = built.next_id
                                  /\ placed' = built.placed
                                  /\ tick_fetch_failed' =
                                         (\/ tick_fetch_failed
                                          \/ price1 = PriceFailed
                                          \/ price2 = PriceFailed)
                                  /\ faults' = faults + Cost(price1 = PriceFailed)
                                                      + Cost(~cancel_save_ok)
                                                      + Cost(price2 = PriceFailed)
                                                      + Cost(~save_ok)
                                  /\ last_atr_update' = now
                        /\ sends_return(notifier)
                ELSE /\ last_adjust' = Adjustment(bounds, FALSE, FALSE)
                     /\ tick_fetch_failed' =
                            (tick_fetch_failed \/ price1 = PriceFailed)
                     /\ faults' = faults + Cost(price1 = PriceFailed)
                     /\ placed' = <<>>
                     /\ last_atr_update' = now
                     /\ \E ok \in BOOLEAN : send_failed' = (atr_sent /\ ~ok)
                     /\ UNCHANGED <<grid_config, active_orders, orders_file,
                                    next_id>>

\* an adjustment check that does not wait for the end of the fill-poll pass
check_and_adjust_grid_early ==
    /\ pc = "scan"
    /\ pc' = "sleep"
    /\ IF grid_config = None \/ now - last_atr_update < adjust_interval
       THEN /\ send_failed' = FALSE
            /\ UNCHANGED <<grid_config, active_orders, orders_file, next_id,
                           last_atr_update, placed, recomputed_at,
                           last_adjust, tick_fetch_failed, faults>>
       ELSE \E klines \in KlineResults, price1 \in PriceResults :
               /\ faults + Cost(price1 = PriceFailed) <= MaxFaults
               /\ adjust_grid(calculate_atr_bounds(klines, price1), price1,
                              klines # <<>>, Notifier)
    /\ faults' <= MaxFaults
    /\ scan_price' = F(0)
    /\ UNCHANGED <<config_vars, running, pnl_file, now, fills,
                   scan_queue, last_fill, tick_start>>

check_and_adjust_grid_sending(notifier) ==
    /\ pc = "scan"
    /\ scan_queue = <<>>
    /\ pc' = "sleep"
    /\ IF grid_config = None \/ now - last_atr_update < adjust_interval
       THEN /\ send_failed' = FALSE
            /\ UNCHANGED <<grid_config, active_orders, orders_file, next_id,
                           last_atr_update, placed, recomputed_at,
                           last_adjust, tick_fetch_failed, faults>>
       ELSE \E klines \in KlineResults, price1 \in PriceResults :
               /\ faults + Cost(price1 = PriceFailed) <= MaxFaults
               /\ adjust_grid(calculate_atr_bounds(klines, price1), price1,
                              klines # <<>>, notifier)
    /\ faults' <= MaxFaults
    /\ scan_price' = F(0)
    /\ UNCHANGED <<config_vars, running, pnl_file, now, fills,
                   scan_queue, last_fill, tick_start>>

check_and_adjust_grid == check_and_adjust_grid_sending(Notifier)

\* a loop that a tick with a failed price fetch leaves for good
sleep_unless_failed ==
    /\ ~tick_fetch_failed
    /\ pc = "sleep"
    /\ now < MaxTime
    /\ now' = now + 1
    /\ pc' = "loop"
    /\ placed' = <<>>
    /\ last_fill' = None
    /\ tick_start' = NoTick
    /\ last_adjust' = None
    /\ tick_fetch_failed' = FALSE
    /\ send_failed' = FALSE
    /\ UNCHANGED <<config_vars, running, grid_config, active_orders,
                   last_atr_update, orders_file, pnl_file, faults, fills,
                   next_id, scan_price, scan_queue, recomputed_at>>

\* monitor_orders: asyncio.sleep(10), one poll period
sleep ==
    /\ pc = "sleep"
    /\ now < MaxTime
    /\ now' = now + 1
    /\ pc' = "loop"
    /\ placed' = <<>>
    /\ last_fill' = None
    /\ tick_start' = NoTick
    /\ last_adjust' = None
    /\ tick_fetch_failed' = FALSE
    /\ send_failed' = FALSE
    /\ UNCHANGED <<config_vars, running, grid_config, active_orders,
                   last_atr_update, orders_file, pnl_file, faults, fills,
                   next_id, scan_price, scan_queue, recomputed_at>>

\* a stop that cancels the orders
stop_bot_cancelling ==
    /\ running
    /\ pc = "sleep"
    /\ running' = FALSE
    /\ send_failed' = FALSE
    /\ active_orders' = <<>>
    /\ orders_file' = <<>>
    /\ UNCHANGED <<config_vars, grid_config, last_atr_update,
                   pnl_file, now, faults, fills, next_id, pc,
                   scan_price, scan_queue, placed, last_fill, recomputed_at,
                   last_adjust, tick_start, tick_fetch_failed>>

\* GridTradingBot.stop_bot, called by the signal handler
stop_bot ==
    /\ running
    /\ pc = "sleep"
    /\ running' = FALSE
    /\ send_failed' = FALSE
    /\ UNCHANGED <<config_vars, grid_config, active_orders, last_atr_update,
                   orders_file, pnl_file, now, faults, fills, next_id, pc,
                   scan_price, scan_queue, placed, last_fill, recomputed_at,
                   last_adjust, tick_start, tick_fetch_failed>>

Next ==
    \/ start_bot
    \/ monitor_orders
    \/ monitor_order
    \/ check_and_adjust_grid
    \/ sleep
    \/ stop_bot

Spec == Init /\ [][Next]_vars

(***************************************************************************)
(* The process started again: main constructs a new GridTradingBot         *)
(* (__init__, as in Init) over the data directory the previous process     *)
(* left.  The previous process is one whose setup_grid found no candles    *)
(* and the first price of the ticker, built its ladder at that price, and  *)
(* was stopped before a fill.                                              *)
(***************************************************************************)
\* DataPersistence.load_orders
load_orders(file) == IF file = NoOrdersFile THEN <<>> ELSE file

\* the GridConfig of the previous process
previous_config(gsize) ==
    LET bounds == calculate_atr_bounds(<<>>, F(100))
        params == calculate_grid_parameters(bounds.lower, bounds.upper, gsize)
    IN  GridConfig(bounds.lower, bounds.upper, params.spread, params.increment)

\* the orders the previous process placed: "buy" below and "sell" above
\* its price, those within its bounds, numbered from 1
previous_orders(is_sandbox, gsize) ==
    LET cfg == previous_config(gsize)
        InBounds(rung) == ladder_in_bounds(cfg, rung)
        calls == SelectSeq(ladder_prices(cfg, F(100), gsize), InBounds)
    IN  IF is_sandbox
        THEN [j \in 1..Len(calls) |->
                 Order(j, calls[j].side, cfg.increment, calls[j].price)]
        ELSE <<>>

InitRestart ==
    /\ sandbox \in BOOLEAN
    /\ grid_size \in (MaxGridSize - 1)..MaxGridSize
    /\ running = FALSE
    /\ grid_config = None
    /\ active_orders = <<>>
    /\ last_atr_update = 0
    /\ orders_file = previous_orders(sandbox, grid_size)
    /\ pnl_file = None
    /\ now = 0
    /\ faults = 0
    /\ fills = 0
    /\ next_id = Len(orders_file) + 1
    /\ pc = "new"
    /\ scan_price = F(0)
    /\ scan_queue = <<>>
    /\ placed = <<>>
    /\ last_fill = None
    /\ recomputed_at = <<>>
    /\ last_adjust = None
    /\ tick_start = NoTick
    /\ tick_fetch_failed = FALSE
    /\ applied = None
    /\ send_failed = FALSE
    /\ UtilsConstructed

SpecRestart == InitRestart /\ [][Next]_vars

(***************************************************************************)
(* The engine with the default GRID_SIZE, from construction to the head of *)
(* its first poll: setup_grid and the ladder of create_initial_orders.     *)
(***************************************************************************)
InitLadder ==
    /\ sandbox \in BOOLEAN
    /\ grid_size = default_grid_size
    /\ running = FALSE
    /\ grid_config = None
    /\ active_orders = <<>>
    /\ last_atr_update = 0
    /\ orders_file = NoOrdersFile
    /\ pnl_file = None
    /\ now = 0
    /\ faults = 0
    /\ fills = 0
    /\ next_id = 1
    /\ pc = "new"
    /\ scan_price = F(0)
    /\ scan_queue = <<>>
    /\ placed = <<>>
    /\ last_fill = None
    /\ recomputed_at = <<>>
    /\ last_adjust = None
    /\ tick_start = NoTick
    /\ tick_fetch_failed = FALSE
    /\ applied = None
    /\ send_failed = FALSE
    /\ UtilsConstructed

NextLadder ==
    \/ start_bot
    \/ monitor_orders

SpecLadder == InitLadder /\ [][NextLadder]_vars

(***************************************************************************)
(* The functions of the engine applied to inputs of their own: the engine  *)
(* stays as constructed and applied records the one call and its result.   *)
(***************************************************************************)
bot_vars == <<sandbox, grid_size, running, grid_config, active_orders,
              last_atr_update, orders_file, pnl_file, now, faults, fills,
              next_id, pc, scan_price, scan_queue, placed, last_fill,
              recomputed_at, last_adjust, tick_start, tick_fetch_failed,
              send_failed>>

engine_vars == <<bot_vars, risk_manager_vars, performance_tracker_vars,
                 order_manager_vars>>

FnPrices == {F(p) : p \in 0..FnMaxPrice}

apply_calculate_atr_bounds ==
    /\ applied = None
    /\ \E klines \in KlineResults, current_price \in FnPrices :
          applied' = [fn |-> "calculate_atr_bounds", klines |-> klines,
                      current_price |-> current_price,
                      result |-> calculate_atr_bounds(klines, current_price)]
    /\ UNCHANGED engine_vars

FnBounds == {F(b) : b \in (-FnMaxBound)..FnMaxBound}

apply_calculate_grid_parameters ==
    /\ applied = None
    /\ \E lower_bound \in FnBounds, upper_bound \in FnBounds,
          gsize \in 2..MaxGridSize :
          applied' = [fn |-> "calculate_grid_parameters",
                      lower_bound |-> lower_bound, upper_bound |-> upper_bound,
                      grid_size |-> gsize,
                      result |-> calculate_grid_parameters(lower_bound,
                                                           upper_bound, gsize)]
    /\ UNCHANGED engine_vars

\* RiskManager.check_risk_limits on a RiskManager with these attributes
FnPnls == {F(-10), F(-5), F(0), F(10)}
FnBalances == {F(0), F(80), F(90), F(100), F(120)}

apply_check_risk_limits ==
    /\ applied = None
    /\ \E pnl \in FnPnls, start_balance \in FnBalances, peak \in FnBalances,
          current_balance \in FnBalances :
          applied' = [fn |-> "check_risk_limits", daily_pnl |-> pnl,
                      session_start_balance |-> start_balance,
                      peak_balance |-> peak,
                      current_balance |-> current_balance,
                      result |-> check_risk_limits(pnl, start_balance, peak,
                                                   current_balance)]
    /\ UNCHANGED engine_vars

\* ATRCalculator.calculate_atr on candle lists of its own, for the periods
\* 1..FnMaxPeriod
FnCandles == {Candle(10, 10, 10), Candle(12, 10, 11), Candle(15, 9, 9)}
FnCandleLists == UNION {[1..n -> FnCandles] : n \in 0..FnMaxCandles}

apply_calculate_atr ==
    /\ applied = None
    /\ \E klines \in FnCandleLists, period \in 1..FnMaxPeriod :
          LET highs == [i \in 1..Len(klines) |-> klines[i].high]
              lows == [i \in 1..Len(klines) |-> klines[i].low]
              closes == [i \in 1..Len(klines) |-> klines[i].close]
          IN  applied' = [fn |-> "calculate_atr", klines |-> klines,
                          period |-> period,
                          result |-> calculate_atr(highs, lows, closes, period)]
    /\ UNCHANGED engine_vars

\* handle_filled_order's mirror of a filled order, and the mirror of that
\* mirror once it has filled, under one spread
FnSpreads == {Rat(1, 2), Rat(8, 10), F(1), F(3)}

apply_mirror_of ==
    /\ applied = None
    /\ \E side \in {"buy", "sell"}, price \in FnPrices, spread \in FnSpreads :
          LET cfg == [spread |-> spread]
              filled_order == [side |-> side, price |-> price, size |-> F(1)]
              mirror == mirror_of(filled_order, cfg)
          IN  applied' = [fn |-> "mirror_of", filled_order |-> filled_order,
                          spread |-> spread, mirror |-> mirror,
                          mirror_of_mirror |-> mirror_of(mirror, cfg)]
    /\ UNCHANGED engine_vars

NextFunctions ==
    \/ apply_calculate_atr_bounds
    \/ apply_calculate_grid_parameters
    \/ apply_check_risk_limits
    \/ apply_calculate_atr
    \/ apply_mirror_of

SpecFunctions == Init /\ [][NextFunctions]_vars

(***************************************************************************)
(* utils.py, RiskManager: the calls a holder of the object makes on it;    *)
(* the engine stays as constructed.                                        *)
(***************************************************************************)
RiskPnls == {F(-10), F(10)}
RiskBalances == {F(-50), F(0), F(80), F(90), F(100), F(120)}

RiskCall(op, current_balance) == [op |-> op, current_balance |-> current_balance]

RiskManager_reset_daily_pnl ==
    /\ Len(risk_calls) < MaxRiskCalls
    /\ daily_pnl' = F(0)
    /\ risk_calls' = Append(risk_calls, RiskCall("reset_daily_pnl", None))
    /\ UNCHANGED <<session_start_balance, peak_balance, risk_status>>
    /\ UNCHANGED <<bot_vars, applied, performance_tracker_vars,
                   order_manager_vars>>

\* an update_pnl that takes its first balance as the session's start
RiskManager_update_pnl_starting_session ==
    /\ Len(risk_calls) < MaxRiskCalls
    /\ \E pnl_change \in RiskPnls, current_balance \in RiskBalances :
          /\ daily_pnl' = risk_update_pnl(daily_pnl, pnl_change)
          /\ peak_balance' = update_peak(peak_balance, current_balance)
          /\ session_start_balance' =
                 IF IsZero(session_start_balance) THEN current_balance
                 ELSE session_start_balance
          /\ risk_status' = check_risk_limits(daily_pnl', session_start_balance',
                                              peak_balance', current_balance)
          /\ risk_calls' = Append(risk_calls,
                                  RiskCall("update_pnl", current_balance))
    /\ UNCHANGED <<bot_vars, applied, performance_tracker_vars,
                   order_manager_vars>>

RiskManager_update_pnl ==
    /\ Len(risk_calls) < MaxRiskCalls
    /\ \E pnl_change \in RiskPnls, current_balance \in RiskBalances :
          /\ daily_pnl' = risk_update_pnl(daily_pnl, pnl_change)
          /\ peak_balance' = update_peak(peak_balance, current_balance)
          /\ risk_status' = check_risk_limits(daily_pnl', session_start_balance,
                                              peak_balance', current_balance)
          /\ risk_calls' = Append(risk_calls,
                                  RiskCall("update_pnl", current_balance))
    /\ UNCHANGED session_start_balance
    /\ UNCHANGED <<bot_vars, applied, performance_tracker_vars,
                   order_manager_vars>>

RiskManager_check_risk_limits ==
    /\ Len(risk_calls) < MaxRiskCalls
    /\ \E current_balance \in RiskBalances :
          /\ risk_status' = check_risk_limits(daily_pnl, session_start_balance,
                                              peak_balance, current_balance)
          /\ risk_calls' = Append(risk_calls,
                                  RiskCall("check_risk_limits", current_balance))
    /\ UNCHANGED <<daily_pnl, session_start_balance, peak_balance>>
    /\ UNCHANGED <<bot_vars, applied, performance_tracker_vars,
                   order_manager_vars>>

NextRiskManager ==
    \/ RiskManager_reset_daily_pnl
    \/ RiskManager_update_pnl
    \/ RiskManager_check_risk_limits

SpecRiskManager == Init /\ [][NextRiskManager]_vars

(***************************************************************************)
(* utils.py, PerformanceTracker: add_trade and its _update_streak; the     *)
(* engine stays as constructed.  current_streak_type is "None" for None.   *)
(***************************************************************************)
TradeProfits == {F(-5), F(0), F(5)}

\* add_trade: profit > 0 is a win, anything else a loss
trade_type_of(profit) == IF RLt(F(0), profit) THEN "win" ELSE "loss"

\* a streak that grows with every trade
streak_always_grows(streak, streak_type, trade_type) == streak + 1

\* _update_streak: the new current_streak
next_streak(streak, streak_type, trade_type) ==
    IF streak_type = trade_type THEN streak + 1 ELSE 1

\* a maximum that follows the current streak
latest_streak(longest, streak) == streak

\* _update_streak: max(self.max_consecutive_..., self.current_streak)
longest_streak(longest, streak) == IF longest >= streak THEN longest ELSE streak

PerformanceTracker_add_trade ==
    /\ Len(trade_history) < MaxTrades
    /\ \E profit \in TradeProfits :
          LET trade_type == trade_type_of(profit)
          IN  /\ trade_history' = Append(trade_history, profit)
              /\ trades_count' = add_trade(trades_count)
              /\ IF trade_type = "win"
                 THEN /\ winning_trades' = winning_trades + 1
                      /\ total_profit' = RAdd(total_profit, profit)
                      /\ UNCHANGED <<losing_trades, total_loss>>
                 ELSE /\ losing_trades' = losing_trades + 1
                      /\ total_loss' = RAdd(total_loss, RAbs(profit))
                      /\ UNCHANGED <<winning_trades, total_profit>>
              /\ current_streak' = next_streak(current_streak,
                                               current_streak_type, trade_type)
              /\ current_streak_type' = trade_type
              /\ IF trade_type = "win"
                 THEN /\ max_consecutive_wins' =
                             longest_streak(max_consecutive_wins, current_streak')
                      /\ UNCHANGED max_consecutive_losses
                 ELSE /\ max_consecutive_losses' =
                             longest_streak(max_consecutive_losses,
                                            current_streak')
                      /\ UNCHANGED max_consecutive_wins
    /\ UNCHANGED <<bot_vars, applied, order_manager_vars>>
    /\ UNCHANGED <<daily_pnl, session_start_balance, peak_balance,
                   risk_status, risk_calls>>

NextPerformanceTracker == PerformanceTracker_add_trade

SpecPerformanceTracker == Init /\ [][NextPerformanceTracker]_vars

(***************************************************************************)
(* utils.py, OrderManager: the three dicts keyed by order id, each entry   *)
(* standing for its 'status' field; the engine stays as constructed.       *)
(***************************************************************************)
OrderIds == 1..MaxOrderIds

\* d[k] = v
dict_set(d, k, v) == [x \in DOMAIN d \cup {k} |-> IF x = k THEN v ELSE d[x]]
\* d.pop(k)
dict_pop(d, k) == [x \in DOMAIN d \ {k} |-> d[x]]

add_pending_order ==
    /\ \E order_id \in OrderIds :
          pending_orders' = dict_set(pending_orders, order_id, "pending")
    /\ UNCHANGED <<filled_orders, cancelled_orders, retired>>
    /\ UNCHANGED <<bot_vars, applied, risk_manager_vars,
                   performance_tracker_vars>>

mark_filled ==
    /\ \E order_id \in OrderIds :
          IF order_id \in DOMAIN pending_orders
          THEN /\ pending_orders' = dict_pop(pending_orders, order_id)
               /\ filled_orders' = dict_set(filled_orders, order_id, "filled")
               /\ retired' = retired \cup {order_id}
          ELSE UNCHANGED <<pending_orders, filled_orders, retired>>
    /\ UNCHANGED cancelled_orders
    /\ UNCHANGED <<bot_vars, applied, risk_manager_vars,
                   performance_tracker_vars>>

mark_cancelled ==
    /\ \E order_id \in OrderIds :
          IF order_id \in DOMAIN pending_orders
          THEN /\ pending_orders' = dict_pop(pending_orders, order_id)
               /\ cancelled_orders' =
                      dict_set(cancelled_orders, order_id, "cancelled")
               /\ retired' = retired \cup {order_id}
          ELSE UNCHANGED <<pending_orders, cancelled_orders, retired>>
    /\ UNCHANGED filled_orders
    /\ UNCHANGED <<bot_vars, applied, risk_manager_vars,
                   performance_tracker_vars>>

NextOrderManager ==
    \/ add_pending_order
    \/ mark_filled
    \/ mark_cancelled

SpecOrderManager == Init /\ [][NextOrderManager]_vars

(***************************************************************************)
(* Properties.                                                             *)
(***************************************************************************)

\* C1: no place_order call (ladder build at setup, rebuild after an
\* adjustment, mirror after a fill) is made at a price strictly below the
\* lower bound or strictly above the upper bound of the GridConfig current
\* at the call.
C1_OrdersWithinBounds ==
    \A j \in 1..Len(placed) :
        /\ RLe(placed[j].lower_bound, placed[j].price)
        /\ RLe(placed[j].price, placed[j].upper_bound)

\* C2: the mirror computed for a filled buy at P is a sell at P + spread,
\* for a filled sell at P a buy at P - spread, with the size of the filled
\* order; a mirror that is placed is placed with that side, price and size.
C2_MirrorSymmetry ==
    last_fill # None =>
        LET o == last_fill.order
            m == last_fill.mirror
        IN  /\ o.side = "buy" =>
                  m.side = "sell" /\ m.price = RAdd(o.price, last_fill.spread)
            /\ o.side = "sell" =>
                  m.side = "buy" /\ m.price = RSub(o.price, last_fill.spread)
            /\ m.size = o.size
            /\ (pc = "scan" /\ placed # <<>>) =>
                  /\ placed[1].side = m.side
                  /\ placed[1].price = m.price
                  /\ placed[1].size = o.size
            /\ mirror_of([side |-> "buy", price |-> Rat(992, 10), size |-> o.size],
                         [spread |-> Rat(8, 10)]) =
                  [side |-> "sell", price |-> F(100), size |-> o.size]

\* C2 witness: a buy has filled, with a positive spread, and its mirror
\* was placed.
C2_BuyFillMirrored ==
    /\ pc = "scan"
    /\ last_fill # None
    /\ last_fill.order.side = "buy"
    /\ last_fill.spread.n > 0
    /\ placed # <<>>

\* C3: once handle_filled_order has run for an order, no order of
\* active_orders carries its id.
C3_FilledOrderLeavesActiveSet ==
    (pc = "scan" /\ last_fill # None) =>
        \A i \in 1..Len(active_orders) :
            active_orders[i].order_id # last_fill.order.order_id

\* C4: every fill handled has appended one entry to the PnL ledger, of
\* profit = filled.size * spread: the ledger holds as many entries as
\* fills were handled and the last one is that of the latest fill.
C4_EveryFillInLedger ==
    (pc = "scan" /\ last_fill # None) =>
        LET trades == load_pnl(pnl_file).trades
        IN  /\ Len(trades) = fills
            /\ trades[Len(trades)].profit =
                   RMul(last_fill.order.size, last_fill.spread)

\* C5: a GridConfig that exists has lower_bound < upper_bound,
\* spread = (upper_bound - lower_bound) / grid_size and increment > 0.
C5_GridConfigInvariant ==
    grid_config # None =>
        /\ RLt(grid_config.lower_bound, grid_config.upper_bound)
        /\ RMul(grid_config.spread, F(grid_size)) =
               RSub(grid_config.upper_bound, grid_config.lower_bound)
        /\ RLt(F(0), grid_config.increment)

\* C6: when there are no candles, or the ATR of the candles is 0, the bounds
\* computed for price p are (0.95 p, 1.05 p).
C6_ZeroVolatilityFallsBack ==
    (/\ applied # None
     /\ applied.fn = "calculate_atr_bounds"
     /\ (applied.klines = <<>> \/ IsZero(candles_atr(applied.klines)))) =>
        /\ RMul(applied.result.lower, F(100)) = RMul(applied.current_price, F(95))
        /\ RMul(applied.result.upper, F(100)) = RMul(applied.current_price, F(105))

\* C7: a tick in which a price fetch failed ends with the GridConfig and
\* the active orders it began with.
C7_FailedFetchIsNoOp ==
    (pc = "sleep" /\ tick_fetch_failed) =>
        /\ grid_config = tick_start.grid_config
        /\ active_orders = tick_start.active_orders

\* C8: setup never installs a GridConfig that is a configuration error
\* (inverted or equal bounds, or a non-positive spread or increment), and
\* when it installs none it has placed no order.
C8_BadSetupStaysUninitialized ==
    (pc = "loop" /\ now = 0) =>
        /\ grid_config # None =>
              /\ RLt(grid_config.lower_bound, grid_config.upper_bound)
              /\ RLt(F(0), grid_config.spread)
              /\ RLt(F(0), grid_config.increment)
        /\ grid_config = None => active_orders = <<>> /\ placed = <<>>

\* C9: two consecutive bound recomputations of check_and_adjust_grid are at
\* least adjust_interval apart.
C9_OneRecomputePerInterval ==
    Len(recomputed_at) = 2 =>
        recomputed_at[2] - recomputed_at[1] >= adjust_interval

\* C10: when check_and_adjust_grid has recomputed the bounds (against old
\* bounds that are not 0), it has cancelled the orders and rebuilt the
\* ladder if and only if |new - old| / old > 0.05 for the lower or for the
\* upper bound; if not, the GridConfig and the active orders are those the
\* handler began with.
C10_RebuildIffDrift ==
    (/\ pc = "sleep"
     /\ last_adjust # None
     /\ ~IsZero(last_adjust.old_config.lower_bound)
     /\ ~IsZero(last_adjust.old_config.upper_bound)) =>
        LET old == last_adjust.old_config
            Drift(new, was) == RLt(Rat(1, 20), RDiv(RAbs(RSub(new, was)), was))
            drifted == \/ Drift(last_adjust.new_lower, old.lower_bound)
                       \/ Drift(last_adjust.new_upper, old.upper_bound)
        IN  /\ drifted <=> (last_adjust.cancelled /\ last_adjust.rebuilt)
            /\ ~drifted =>
                  /\ ~last_adjust.cancelled
                  /\ grid_config = old
                  /\ active_orders = last_adjust.old_orders

\* C11: after a check_and_adjust_grid that cancelled the orders, no order
\* the active list held before it remains; after one that rebuilt the
\* ladder, every active order has the size of the new increment and a price
\* on the new ladder (a fetched price minus or plus k spreads of the new
\* GridConfig, k in 1..grid_size // 2).
C11_NoMixedGenerations ==
    (pc = "sleep" /\ last_adjust # None /\ last_adjust.cancelled) =>
        \A i \in 1..Len(active_orders) :
            LET o == active_orders[i]
            IN  /\ \A j \in 1..Len(last_adjust.old_orders) :
                      last_adjust.old_orders[j].order_id # o.order_id
                /\ last_adjust.rebuilt =>
                      /\ o.size = grid_config.increment
                      /\ \E p \in PriceResults, k \in 1..(grid_size \div 2) :
                            o.price =
                              IF o.side = "buy"
                              THEN RSub(p, RMul(F(k), grid_config.spread))
                              ELSE RAdd(p, RMul(F(k), grid_config.spread))

\* C11 witness: a rebuild has replaced a non-empty active list by a
\* non-empty one.
C11_LadderReplaced ==
    /\ pc = "sleep"
    /\ last_adjust # None
    /\ last_adjust.rebuilt
    /\ last_adjust.old_orders # <<>>
    /\ active_orders # <<>>

\* C12: the engine of a process started over the data directory of a
\* previous one starts with the orders of orders.json in its active list,
\* and every order of orders.json is still in orders.json when start_bot
\* has set the grid up.
C12_RestartResumesSnapshot ==
    [][(pc = "new" /\ pc' = "loop") =>
          LET snapshot == load_orders(orders_file)
          IN  /\ active_orders = snapshot
              /\ \A i \in 1..Len(snapshot) :
                    \E j \in 1..Len(load_orders(orders_file')) :
                        load_orders(orders_file')[j].order_id =
                            snapshot[i].order_id]_vars

\* C13: in a run in which no outbound call has failed, after
\* create_initial_orders at setup, after a check_and_adjust_grid that
\* cancelled the orders, and after each handle_filled_order, orders.json
\* holds the orders of the active list.
C13_SnapshotIsActiveSet ==
    (/\ faults = 0
     /\ \/ pc = "loop" /\ now = 0 /\ grid_config # None
        \/ pc = "sleep" /\ last_adjust # None /\ last_adjust.cancelled
        \/ pc = "scan" /\ last_fill # None) =>
        load_orders(orders_file) = active_orders

\* the orders of one side in a list of orders
side_orders(orders, side) ==
    LET OnSide(o) == o.side = side IN SelectSeq(orders, OnSide)

\* setup_grid has run in simulation with bounds (96, 104), grid_size 10 and
\* spread 0.8, and create_initial_orders has built the ladder at price 100
\* (its first rung is the buy at 99.2)
LadderScenario ==
    /\ pc = "loop"
    /\ sandbox
    /\ grid_size = 10
    /\ grid_config # None
    /\ grid_config.lower_bound = F(96)
    /\ grid_config.upper_bound = F(104)
    /\ grid_config.spread = Rat(8, 10)
    /\ placed # <<>>
    /\ placed[1].side = "buy"
    /\ placed[1].price = Rat(992, 10)

C15_PositiveGridParameters ==
    (/\ applied # None
     /\ applied.fn = "calculate_grid_parameters"
     /\ RLt(applied.lower_bound, applied.upper_bound)
     /\ applied.grid_size >= 2) =>
        /\ ~applied.result.raised
        /\ RLt(F(0), applied.result.spread)
        /\ RLt(F(0), applied.result.increment)

\* C16: monitor_orders returns only with the running flag cleared;
\* whatever has failed, the fill-poll pass and the adjustment check of an
\* iteration lead to its sleep and to nothing else, the sleep can end
\* (while the clock of the model runs) and leads to the head of the loop,
\* where the next iteration can start.
C16_LoopSurvivesFailures ==
    /\ [](pc = "done" => ~running)
    /\ [](pc = "loop" => ENABLED monitor_orders)
    /\ []((pc = "sleep" /\ now < MaxTime) => ENABLED sleep)
    /\ [][/\ (pc = "loop" /\ running) => pc' = "scan"
          /\ pc = "scan" => pc' \in {"scan", "sleep"}
          /\ pc = "sleep" => pc' \in {"sleep", "loop"}]_vars

\* C16 witness: the adjustment check of one tick has failed (it recomputed
\* the bounds and did not get to record the time) and the next tick has
\* run its adjustment check, with the flag still set.
C16_TickAfterFailedTick ==
    /\ pc = "sleep"
    /\ running
    /\ Len(recomputed_at) = 2
    /\ recomputed_at[2] = recomputed_at[1] + 1
    /\ last_atr_update < recomputed_at[1]

C18_PollAndAdjustInSequence ==
    [][/\ (pc = "scan" /\ pc' = "sleep") => scan_queue = <<>>
       /\ fills' # fills =>
             /\ pc = "scan" /\ pc' = "scan"
             /\ recomputed_at' = recomputed_at
             /\ last_adjust = None /\ last_adjust' = None
             /\ grid_config' = grid_config
       /\ recomputed_at' # recomputed_at =>
             /\ pc = "scan" /\ pc' = "sleep"
             /\ fills' = fills
             /\ last_fill' = last_fill]_vars

\* C18 witness: a tick has handled a fill and then torn the ladder down.
C18_FillThenTeardown ==
    /\ pc = "sleep"
    /\ last_fill # None
    /\ last_adjust # None
    /\ last_adjust.cancelled

\* C19: the step that handles a fill applies RiskManager.update_pnl with
\* the profit of the fill (size * spread) and PerformanceTracker.add_trade:
\* daily_pnl grows by the profit and trades_count by one.
C19_FillFeedsBookkeeping ==
    [][fills' # fills =>
          LET profit == RMul(last_fill'.order.size, last_fill'.spread)
          IN  /\ daily_pnl' = risk_update_pnl(daily_pnl, profit)
              /\ trades_count' = add_trade(trades_count)]_vars

\* C20: the PnL ledger is append-only and consistent: every step leaves
\* the entries already in the ledger as they were, in place, adding at most
\* one entry behind them, and in every state total_pnl is the sum of the
\* profit fields of the entries (the absent file reads as the zeroed
\* ledger).
C20_LedgerAppendOnly ==
    /\ [](LET pnl_data == load_pnl(pnl_file)
          IN  pnl_data.total_pnl =
                  RSum([i \in 1..Len(pnl_data.trades) |->
                            pnl_data.trades[i].profit]))
    /\ [][LET old == load_pnl(pnl_file).trades
              new == load_pnl(pnl_file').trades
          IN  /\ Len(new) \in {Len(old), Len(old) + 1}
              /\ SubSeq(new, 1, Len(old)) = old]_vars

\* C20 witness: two fills have been entered into the ledger, one behind
\* the other
C20_TwoEntries ==
    /\ pnl_file # None
    /\ Len(pnl_file.trades) = 2
    /\ fills = 2

\* C21: a notifier failure never changes what the engine does.  Every
\* step in which the sends failed is a step the same handler takes, from
\* the same state, with its sends succeeding: the same GridConfig, active
\* orders, order snapshot and PnL ledger result (and the same of everything
\* else the engine holds), and the handler returns to its caller as it
\* would have.
C21_NotifierFailureChangesNothing ==
    [][send_failed' =>
          \/ start_bot_sending(NotifierUp)
          \/ monitor_order_sending(NotifierUp)
          \/ check_and_adjust_grid_sending(NotifierUp)]_vars

\* C21 witness: the sends of a fill handler failed, and the handler placed
\* the mirror and entered the fill into the ledger
C21_FillHandledWithoutNotifier ==
    /\ send_failed
    /\ pc = "scan"
    /\ last_fill # None
    /\ placed # <<>>
    /\ pnl_file # None
    /\ Len(pnl_file.trades) = fills

\* C22: an order is never resurrected: an order id that has been filled
\* or cancelled is not in pending_orders again, and no order id is both in
\* filled_orders and in cancelled_orders.
C22_NeverResurrected ==
    /\ retired \cap DOMAIN pending_orders = {}
    /\ DOMAIN filled_orders \cap DOMAIN cancelled_orders = {}

\* C23: in what check_risk_limits returns, should_stop_trading is true
\* exactly when daily_limit_exceeded or drawdown_limit_exceeded is, and it
\* is false for a RiskManager whose session_start_balance and peak_balance
\* are 0 as constructed.
C23_StopIffALimitExceeded ==
    (applied # None /\ applied.fn = "check_risk_limits") =>
        /\ applied.result.should_stop_trading =
               (\/ applied.result.daily_limit_exceeded
                \/ applied.result.drawdown_limit_exceeded)
        /\ (/\ IsZero(applied.session_start_balance)
            /\ IsZero(applied.peak_balance)) =>
               ~applied.result.should_stop_trading

\* C23 witness: a check in which only the drawdown limit is exceeded, and
\* trading is to stop
C23_StopOnDrawdownAlone ==
    /\ applied # None
    /\ applied.fn = "check_risk_limits"
    /\ applied.result.drawdown_limit_exceeded
    /\ ~applied.result.daily_limit_exceeded
    /\ applied.result.should_stop_trading

\* the current_balance arguments of the update_pnl calls made so far
balances_passed ==
    LET IsUpdate(call) == call.op = "update_pnl"
        updates == SelectSeq(risk_calls, IsUpdate)
    IN  [i \in 1..Len(updates) |-> updates[i].current_balance]

RECURSIVE RMaxOf(_)
RMaxOf(balances) ==
    IF balances = <<>> THEN F(0)
    ELSE RMax(Head(balances), RMaxOf(Tail(balances)))

\* C24: what update_pnl(delta, current_balance) returns has
\* drawdown_limit_exceeded true exactly when the peak_balance it has just
\* updated is positive and (peak_balance - current_balance) / peak_balance
\* is above max_drawdown; a call whose current_balance is a new peak
\* reports no drawdown.
C24_DrawdownAgainstUpdatedPeak ==
    [][(/\ Len(risk_calls') = Len(risk_calls) + 1
        /\ risk_calls'[Len(risk_calls')].op = "update_pnl") =>
          LET current_balance == risk_calls'[Len(risk_calls')].current_balance
          IN  /\ risk_status'.drawdown_limit_exceeded =
                     (/\ RLt(F(0), peak_balance')
                      /\ RLt(max_drawdown,
                             RDiv(RSub(peak_balance', current_balance),
                                  peak_balance')))
              /\ RLt(peak_balance, current_balance) =>
                     ~risk_status'.drawdown_limit_exceeded]_vars

\* C24 witness: an update_pnl below the peak, by more than max_drawdown,
\* has reported the drawdown
C24_DrawdownReported ==
    /\ risk_calls # <<>>
    /\ risk_calls[Len(risk_calls)].op = "update_pnl"
    /\ RLt(risk_calls[Len(risk_calls)].current_balance, peak_balance)
    /\ risk_status.drawdown_limit_exceeded

\* C25: peak_balance never decreases, whatever is called, and is the
\* maximum of 0 and the balances passed to update_pnl so far.
C25_PeakBalanceMonotonic ==
    /\ [](peak_balance = RMaxOf(balances_passed))
    /\ [][RLe(peak_balance, peak_balance')]_vars

\* C25 witness: a balance below the peak has been passed to update_pnl
\* after the balance that set the peak
C25_PeakKeptAboveBalance ==
    /\ Len(balances_passed) >= 2
    /\ RLt(balances_passed[Len(balances_passed)], peak_balance)
    /\ RLt(F(0), peak_balance)

\* the outcomes of the trades passed to add_trade, in order
outcomes == [i \in 1..Len(trade_history) |-> trade_type_of(trade_history[i])]

\* the length of the run of outcome o that ends at position i of outcomes
RECURSIVE run_ending_at(_, _)
run_ending_at(o, i) ==
    IF i = 0 \/ outcomes[i] # o THEN 0 ELSE 1 + run_ending_at(o, i - 1)

\* the length of the longest run of outcome o
longest_run(o) ==
    IF \E i \in 1..Len(outcomes) : outcomes[i] = o
    THEN CHOOSE n \in 1..Len(outcomes) :
            /\ \E i \in 1..Len(outcomes) : run_ending_at(o, i) = n
            /\ \A i \in 1..Len(outcomes) : run_ending_at(o, i) <= n
    ELSE 0

\* C26: after add_trade calls, current_streak is the number of trailing
\* trades with the outcome of the last trade (a profit of 0 being a loss)
\* and current_streak_type is that outcome.
C26_StreakIsTrailingRun ==
    trade_history # <<>> =>
        /\ current_streak_type = outcomes[Len(outcomes)]
        /\ current_streak = run_ending_at(current_streak_type, Len(outcomes))

\* C26 witness: a streak of two losses, the last of them a profit of 0,
\* after a win
C26_LossStreakAfterWin ==
    /\ Len(trade_history) = 3
    /\ outcomes = <<"win", "loss", "loss">>
    /\ IsZero(trade_history[3])
    /\ current_streak = 2

\* C27: max_consecutive_wins and max_consecutive_losses never decrease,
\* and each is the length of the longest run of wins (of losses) in the
\* whole trade history.
C27_MaxStreaksAreLongestRuns ==
    /\ [](/\ max_consecutive_wins = longest_run("win")
          /\ max_consecutive_losses = longest_run("loss"))
    /\ [][/\ max_consecutive_wins' >= max_consecutive_wins
          /\ max_consecutive_losses' >= max_consecutive_losses]_vars

\* C27 witness: the longest run of wins lies behind a shorter current one,
\* with a loss between them
C27_LongestRunInThePast ==
    /\ outcomes = <<"win", "win", "loss", "win">>
    /\ max_consecutive_wins = 2
    /\ max_consecutive_losses = 1
    /\ current_streak = 1

\* C28: for candles with fewer than N + 1 samples, none included, the
\* ATR of period N is 0.
C28_ShortInputGivesZero ==
    (/\ applied # None
     /\ applied.fn = "calculate_atr"
     /\ Len(applied.klines) < applied.period + 1) =>
        IsZero(applied.result)

\* C28 witness: an ATR of period N over N candles that are not flat
C28_OneSampleShort ==
    /\ applied # None
    /\ applied.fn = "calculate_atr"
    /\ Len(applied.klines) = applied.period
    /\ applied.period = FnMaxPeriod
    /\ \A i \in 1..Len(applied.klines) :
           applied.klines[i].high # applied.klines[i].low
    /\ IsZero(applied.result)

\* the true range of candle i >= 2 of klines:
\* max(high[i] - low[i], |high[i] - close[i-1]|, |low[i] - close[i-1]|)
claimed_true_range(klines, i) ==
    LET a == RSub(klines[i].high, klines[i].low)
        b == RAbs(RSub(klines[i].high, klines[i - 1].close))
        c == RAbs(RSub(klines[i].low, klines[i - 1].close))
    IN  CHOOSE m \in {a, b, c} : RLe(a, m) /\ RLe(b, m) /\ RLe(c, m)

\* C29: for candles with at least N + 1 samples, the ATR of period N is
\* the sum of the true ranges of the last N candles divided by N; candles
\* of one constant price give 0.
C29_AverageOfLastTrueRanges ==
    (/\ applied # None
     /\ applied.fn = "calculate_atr"
     /\ Len(applied.klines) >= applied.period + 1) =>
        LET klines == applied.klines
            N == applied.period
            last == [k \in 1..N |-> claimed_true_range(klines, Len(klines) - N + k)]
        IN  /\ RMul(applied.result, F(N)) = RSum(last)
            /\ (\A i \in 1..Len(klines) :
                    /\ klines[i] = klines[1]
                    /\ klines[1].high = klines[1].low
                    /\ klines[1].high = klines[1].close) =>
                   IsZero(applied.result)

\* C29 witness: an ATR of period 2 over four candles, the first true range
\* larger than the last two, which are largest against the previous close
C29_OlderRangeLeftOut ==
    /\ applied # None
    /\ applied.fn = "calculate_atr"
    /\ applied.period = 2
    /\ applied.klines = <<Candle(10, 10, 10), Candle(15, 9, 9),
                          Candle(12, 10, 11), Candle(15, 9, 9)>>
    /\ applied.result = Rat(9, 2)

\* C30: under one spread, the mirror of the mirror of a fill is on the
\* side of the fill, at a price no further than one spread from the price
\* of the fill (and the mirror itself is on the other side).
C30_MirrorRoundTrip ==
    (applied # None /\ applied.fn = "mirror_of") =>
        /\ applied.mirror.side # applied.filled_order.side
        /\ applied.mirror_of_mirror.side = applied.filled_order.side
        /\ RLe(RAbs(RSub(applied.mirror_of_mirror.price,
                         applied.filled_order.price)),
               applied.spread)

\* C30 witness: a sell at 20 under the spread 0.8, its mirror a buy at
\* 19.2, and the mirror of that a sell
C30_SellMirroredTwice ==
    /\ applied # None
    /\ applied.fn = "mirror_of"
    /\ applied.filled_order.side = "sell"
    /\ applied.filled_order.price = F(20)
    /\ applied.mirror = [side |-> "buy", price |-> Rat(192, 10), size |-> F(1)]
    /\ applied.mirror_of_mirror.side = "sell"

\* C36: whatever is called on the RiskManager, session_start_balance
\* stays 0 as constructed, so no result has daily_limit_exceeded, whatever
\* daily_pnl has accumulated, and should_stop_trading is true only with
\* drawdown_limit_exceeded.
C36_DailyLimitNeverTrips ==
    /\ IsZero(session_start_balance)
    /\ risk_status # None =>
          /\ ~risk_status.daily_limit_exceeded
          /\ risk_status.should_stop_trading =>
                 risk_status.drawdown_limit_exceeded

\* C36 witness: three losses have accumulated in daily_pnl, trading is to
\* stop for the drawdown, and the daily limit is not reported
C36_LossesWithoutDailyLimit ==
    /\ daily_pnl = F(-30)
    /\ risk_status # None
    /\ risk_status.should_stop_trading
    /\ ~risk_status.daily_limit_exceeded

\* C35: during the fill-poll pass of a tick, every order still to be
\* checked was in active_orders when the pass began, so a mirror placed
\* by a fill of this tick is not checked or filled in this tick.
C35_PassOverTickStartOrders ==
    pc = "scan" =>
        \A i \in 1..Len(scan_queue) :
            \E j \in 1..Len(tick_start.active_orders) :
                tick_start.active_orders[j].order_id = scan_queue[i].order_id

\* C35 witness: a fill of this tick has put its mirror in active_orders
\* while the pass still has orders to check
C35_MirrorPlacedDuringPass ==
    /\ pc = "scan"
    /\ scan_queue # <<>>
    /\ last_fill # None
    /\ \E i \in 1..Len(active_orders) :
          /\ active_orders[i].side = last_fill.mirror.side
          /\ active_orders[i].price = last_fill.mirror.price
          /\ \A j \in 1..Len(tick_start.active_orders) :
                 tick_start.active_orders[j].order_id #
                     active_orders[i].order_id

\* C33: in live mode every place_order call whose add_order the gateway
\* accepted (the response carries an orderId) returned an Order, and that
\* Order is in active_orders at the rung's side and price.
C33_AcceptedOrderTracked ==
    ~sandbox =>
        \A i \in 1..Len(placed) :
            placed[i].gateway = "ok" =>
                /\ placed[i].tracked
                /\ \E j \in 1..Len(active_orders) :
                       /\ active_orders[j].side = placed[i].side
                       /\ active_orders[j].price = placed[i].price

\* C32: an order that handle_filled_order has handled is never handled
\* again: every turn of the fill-poll pass that handles a fill handles an
\* order whose status is still active, also after a failed persistence
\* write.
C32_HandledAtMostOnce ==
    [][(pc = "scan" /\ fills' = fills + 1) =>
           Head(scan_queue).status = "active"]_vars

\* C34: after setup, whatever fills and adjustment cycles follow,
\* active_orders never holds more than grid_size orders.
C34_AtMostGridSizeOrders ==
    Len(active_orders) <= grid_size

\* the state a failed adjustment cycle leaves: the orders cancelled and
\* the bounds overwritten with those of a failed price fetch
left_by_failed_adjustment ==
    /\ grid_config # None
    /\ IsZero(grid_config.lower_bound)
    /\ active_orders = <<>>

\* C31: the engine recovers from an adjustment cycle that failed part-way:
\* an adjustment check that acts on the state such a cycle left, in a tick
\* where every fetch succeeds and the recomputed bounds are positive with
\* lower < upper, installs these bounds and (in simulation, where every
\* placement yields an order) leaves a ladder in active_orders.
C31_RecoversAfterFailedAdjustment ==
    [][(/\ pc = "scan" /\ pc' = "sleep"
        /\ left_by_failed_adjustment
        /\ last_adjust' # None
        /\ ~tick_fetch_failed'
        /\ RLt(F(0), last_adjust'.new_lower)
        /\ RLt(last_adjust'.new_lower, last_adjust'.new_upper))
       => /\ grid_config'.lower_bound = last_adjust'.new_lower
          /\ grid_config'.upper_bound = last_adjust'.new_upper
          /\ sandbox => active_orders' # <<>>]_vars

\* C31, what the code does instead: no step changes the state a failed
\* adjustment cycle left, whatever the gateway answers
C31_FailedAdjustmentIsFinal ==
    [][left_by_failed_adjustment =>
           /\ grid_config' = grid_config
           /\ active_orders' = <<>>
           /\ last_atr_update' = last_atr_update]_vars

====
